---- MODULE Spec2Model ----
(***************************************************************************)
(* CryoconController (cryocon_22c_controller/cryocon_controller.py): the   *)
(* session object of a CryoCon 22C temperature controller.                 *)
(*                                                                         *)
(* Text is a sequence of one-character strings, so that strip(), lower(),  *)
(* replace() and float() are computed and not assumed.  Python's None is   *)
(* the one-element sequence None; a map attribute that is still None is    *)
(* the function with the empty domain (subscripting it fails for every     *)
(* key, as subscripting None does).  Floats are held in tenths.            *)
(***************************************************************************)
EXTENDS Integers, Sequences, FiniteSets, TLC

VARIABLES
    connected,      \* the transport of scpi.Instrument is open
    channels,       \* self.__channels: channel -> list of alias texts
    channel_names,  \* self.__channel_names: channel -> display name
    loops,          \* self.__loops: loop -> source text, NoMap while None
    units,          \* self.__units: channel -> unit text, NoMap while None
    max_temps,      \* self.__max_temps: loop -> tenths, NoMap while None
    op,             \* the call that has just returned: [name, args, nums],
                    \* NoCall while the caller is between calls
    sent,           \* the commands that call handed to the transport, in order
    err,            \* the exception that call ended in, "" when it returned
    ret,            \* the value that call returned
    recv,           \* what the transport yielded to that call, in order
    before          \* self.__channels as it was when that call was made

vars == <<connected, channels, channel_names, loops, units, max_temps,
          op, sent, err, ret, recv, before>>

-----------------------------------------------------------------------------
(* Text *)

None == <<"None">>
NoMap == [k \in {} |-> None]

Empty == << >>
ChA == <<"a">>
ChB == <<"b">>
Loop1 == <<"1">>
Loop2 == <<"2">>
Loop3 == <<"3">>
Loop4 == <<"4">>
NoneText == <<"N", "o", "n", "e">>   \* '{}'.format( None )

Min(S) == CHOOSE x \in S : \A y \in S : x <= y
Max(S) == CHOOSE x \in S : \A y \in S : x >= y

UpperLetters ==
    <<"A", "B", "C", "D", "E", "F", "G", "H", "I", "J", "K", "L", "M",
      "N", "O", "P", "Q", "R", "S", "T", "U", "V", "W", "X", "Y", "Z">>
LowerLetters ==
    <<"a", "b", "c", "d", "e", "f", "g", "h", "i", "j", "k", "l", "m",
      "n", "o", "p", "q", "r", "s", "t", "u", "v", "w", "x", "y", "z">>

\* str.lower(), one character
LowerOf ==
    [c \in {UpperLetters[i] : i \in 1..Len(UpperLetters)} |->
        LowerLetters[CHOOSE i \in 1..Len(UpperLetters) : UpperLetters[i] = c]]

LowerChar(c) == IF c \in DOMAIN LowerOf THEN LowerOf[c] ELSE c

\* str.lower()
Lower(s) == [i \in 1..Len(s) |-> LowerChar(s[i])]

\* str.strip(): leading and trailing white space removed
Strip(s) ==
    LET ink == {i \in 1..Len(s) : s[i] # " "}
    IN  IF ink = {} THEN Empty ELSE SubSeq(s, Min(ink), Max(ink))

\* s[i..] starts with u
StartsAt(s, u, i) ==
    /\ i + Len(u) - 1 <= Len(s)
    /\ \A j \in 1..Len(u) : s[i + j - 1] = u[j]

\* str.replace( u, '' ): every non-overlapping occurrence of u, left to right
RECURSIVE RemoveFrom(_, _, _)
RemoveFrom(s, u, i) ==
    IF i > Len(s) THEN Empty
    ELSE IF StartsAt(s, u, i) THEN RemoveFrom(s, u, i + Len(u))
    ELSE <<s[i]>> \o RemoveFrom(s, u, i + 1)

\* s without the first occurrence of u
RemoveFirst(s, u) ==
    LET at == {i \in 1..Len(s) : StartsAt(s, u, i)}
    IN  IF u = Empty \/ at = {} THEN s
        ELSE SubSeq(s, 1, Min(at) - 1) \o SubSeq(s, Min(at) + Len(u), Len(s))

\* str.replace( u, '', 1 )
Replace_First(s, u) == RemoveFirst(s, u)

Replace(s, u) == IF u = Empty THEN s ELSE RemoveFrom(s, u, 1)

DigitChars == <<"0", "1", "2", "3", "4", "5", "6", "7", "8", "9">>
IsDigit(c) == \E d \in 1..10 : DigitChars[d] = c
DigitVal(c) == (CHOOSE d \in 1..10 : DigitChars[d] = c) - 1

RECURSIVE DigitsVal(_)
DigitsVal(s) ==
    IF s = Empty THEN 0
    ELSE 10 * DigitsVal(SubSeq(s, 1, Len(s) - 1)) + DigitVal(s[Len(s)])

\* float( s ): white space around the number is accepted, then digits with
\* at most one point and at least one digit; anything else is a ValueError.
\* The value is in tenths (digits past the first decimal are dropped).
IsNumber(s) ==
    LET t == Strip(s)
        pts == {i \in 1..Len(t) : t[i] = "."}
    IN  /\ \A i \in 1..Len(t) : IsDigit(t[i]) \/ t[i] = "."
        /\ Cardinality(pts) <= 1
        /\ \E i \in 1..Len(t) : IsDigit(t[i])

Float(s) ==
    LET t == Strip(s)
        pts == {i \in 1..Len(t) : t[i] = "."}
        p == IF pts = {} THEN Len(t) + 1 ELSE Min(pts)
        whole == SubSeq(t, 1, p - 1)
        frac == SubSeq(t, p + 1, Len(t))
    IN  10 * DigitsVal(whole) + (IF frac = Empty THEN 0 ELSE DigitVal(frac[1]))

\* '{}'.format( x ) of a float held in tenths
FormatNum(n) ==
    (IF n >= 100 THEN <<DigitChars[((n \div 100) % 10) + 1]>> ELSE Empty)
        \o <<DigitChars[((n \div 10) % 10) + 1], ".", DigitChars[(n % 10) + 1]>>

\* '{}'.format( x ) of a text or None
Format(x) == IF x = None THEN NoneText ELSE x

\* a command text: the format string of the source and its arguments
Cmd(fmt, args) == [fmt |-> fmt, args |-> args]

-----------------------------------------------------------------------------
(* Values a call returns, and the outcome of a call or of a step of it *)

RetNone == [kind |-> "none", num |-> 0, text |-> Empty]
RetNum(n) == [kind |-> "num", num |-> n, text |-> Empty]
RetText(t) == [kind |-> "text", num |-> 0, text |-> t]
RetBool(b) == [kind |-> "bool", num |-> IF b THEN 1 ELSE 0, text |-> Empty]
RetInt(n) == [kind |-> "int", num |-> n, text |-> Empty]

Out(s, e, r) == [sent |-> s, err |-> e, ret |-> r, recv |-> Empty]

\* The call goes on after the step q and ends in e, returning r
Then(q, e, r) == [q EXCEPT !.err = e, !.ret = r]

\* The step b made after the step a
After(a, b) ==
    [sent |-> a.sent \o b.sent, err |-> b.err, ret |-> b.ret,
     recv |-> a.recv \o b.recv]

-----------------------------------------------------------------------------
(* The transport: scpi.Instrument.query.  A closed transport refuses the   *)
(* command; an open one takes it and answers, or times out.                *)

query(conn, cmd, reply, fails) ==
    IF ~conn THEN Out(Empty, "NotConnectedError", RetNone)
    ELSE IF fails THEN Out(<<cmd>>, "CommunicationError", RetNone)
    ELSE [Out(<<cmd>>, "", RetText(reply)) EXCEPT !.recv = <<RetText(reply)>>]

-----------------------------------------------------------------------------
(* Lookups *)

Channels == <<ChA, ChB>>          \* the keys of self.__channels, in order
Loops == <<Loop1, Loop2, Loop3, Loop4>>
LoopSet == {Loop1, Loop2, Loop3, Loop4}
ChannelSet == {ChA, ChB}

SeedChannels == [c \in ChannelSet |-> IF c = ChA THEN <<<<"c", "h", "a">>>>
                                                 ELSE <<<<"c", "h", "b">>>>]

InList(x, l) == \E i \in 1..Len(l) : l[i] = x

\* get_channel_by_name that falls back on the first channel
get_channel_by_name_FirstOnMiss(chs, name) ==
    LET n == Lower(Strip(name))
        hit == {i \in 1..Len(Channels) :
                   /\ Channels[i] \in DOMAIN chs
                   /\ (n = Channels[i] \/ InList(n, chs[Channels[i]]))}
    IN  IF hit = {} THEN Channels[1] ELSE Channels[Min(hit)]

\* get_channel_by_name: the first channel, in dictionary order, whose key or
\* one of whose aliases is the stripped, lower-cased name
get_channel_by_name(chs, name) ==
    LET n == Lower(Strip(name))
        hit == {i \in 1..Len(Channels) :
                   /\ Channels[i] \in DOMAIN chs
                   /\ (n = Channels[i] \/ InList(n, chs[Channels[i]]))}
    IN  IF hit = {} THEN None ELSE Channels[Min(hit)]

\* get_channel_loop with the scan over all four loops
get_channel_loop_AllLoops(chs, lps, channel) ==
    LET ch == get_channel_by_name(chs, channel)
        hit == {i \in 1..4 : get_channel_by_name(chs, lps[Loops[i]]) = ch}
    IN  IF DOMAIN lps = {} THEN [err |-> "TypeError", val |-> None]
        ELSE IF hit = {} THEN [err |-> "", val |-> None]
        ELSE [err |-> "", val |-> Loops[Min(hit)]]

\* get_channel_loop: [err, val]; self.loops[ loop ] on None is a TypeError
get_channel_loop(chs, lps, channel) ==
    LET ch == get_channel_by_name(chs, channel)
        hit == {i \in 1..2 : get_channel_by_name(chs, lps[Loops[i]]) = ch}
    IN  IF DOMAIN lps = {} THEN [err |-> "TypeError", val |-> None]
        ELSE IF hit = {} THEN [err |-> "", val |-> None]
        ELSE [err |-> "", val |-> Loops[Min(hit)]]

\* temp2float: [err, val]
temp2float(chs, uts, temp, channel) ==
    LET ch == get_channel_by_name(chs, channel)
    IN  IF DOMAIN uts = {} THEN [err |-> "TypeError", val |-> 0]
        ELSE IF ch \notin DOMAIN uts THEN [err |-> "KeyError", val |-> 0]
        ELSE LET t == Replace(temp, uts[ch])
             IN  IF IsNumber(t) THEN [err |-> "", val |-> Float(t)]
                 ELSE [err |-> "ValueError", val |-> 0]

\* lock: the keypad lock command
LockCmd(lock) ==
    Cmd("system:lock {}", <<IF lock THEN <<"o", "n">> ELSE <<"o", "f", "f">>>>)

-----------------------------------------------------------------------------
(* connect().  The device's replies are the inputs: names[c], sources[l],  *)
(* unitsOf[c], maxsets[l]; failAt is the number of the query that times    *)
(* out (0: none).  The queries are numbered in the order connect() sends   *)
(* them: 1-2 names, 3-6 sources, 7-8 units, 9-12 max set points, 13 lock.  *)

\* The first n of the commands fmt.format( keys[1] ), fmt.format( keys[2] ), ...
FirstCmds(fmt, keys, n) ==
    [i \in 1..(IF n < Len(keys) THEN n ELSE Len(keys)) |-> Cmd(fmt, <<keys[i]>>)]

\* __add_name_to_channel without the lower-casing of the name
NamedChannels_NoLower(names, n) ==
    [c \in ChannelSet |->
        IF \E i \in 1..n : Channels[i] = c
        THEN Append(SeedChannels[c], Strip(Strip(names[c])))
        ELSE SeedChannels[c]]

\* connect() without the re-seeding of self.__channels
NamedChannels_Accumulate(names, n) ==
    [c \in ChannelSet |->
        LET old == IF c \in DOMAIN channels THEN channels[c] ELSE SeedChannels[c]
        IN  IF \E i \in 1..n : Channels[i] = c
            THEN Append(old, Lower(Strip(Strip(names[c]))))
            ELSE old]

\* __initialize_channel_names after its first n channels: channel_name()
\* strips the reply, __add_name_to_channel appends it stripped and lower-cased
NamedChannels(names, n) ==
    [c \in ChannelSet |->
        IF \E i \in 1..n : Channels[i] = c
        THEN Append(SeedChannels[c], Lower(Strip(Strip(names[c]))))
        ELSE SeedChannels[c]]

NamedChannelNames(old, names, n) ==
    [c \in DOMAIN old \cup {Channels[i] : i \in 1..n} |->
        IF \E i \in 1..n : Channels[i] = c THEN Strip(names[c]) ELSE old[c]]

\* __initialize_loop_sources
initialize_loop_sources(sources) == [l \in LoopSet |-> Lower(sources[l])]

\* __initialize_max_temps, one loop without a timeout: "ok", or the error
\* its iteration ends in (self.units[ ch ] comes before the query)
MaxTempStep(chs, lps, uts, maxsets, i) ==
    LET ch == get_channel_by_name(chs, lps[Loops[i]])
    IN  IF ch \notin DOMAIN uts THEN "KeyError"
        ELSE temp2float(chs, uts, maxsets[Loops[i]], ch).err

\* __initialize_max_temps
initialize_max_temps(chs, lps, uts, maxsets) ==
    [l \in LoopSet |->
        temp2float(chs, uts, maxsets[l], get_channel_by_name(chs, lps[l])).val]

\* What connect() computes from the replies when no query times out: the
\* alias lists after one and after both names, the maps, and how each
\* iteration of __initialize_max_temps ends
ConnectPlan(names, sources, unitsOf, maxsets) ==
    LET chs == NamedChannels(names, 2)
        lps == initialize_loop_sources(sources)
        steps == [i \in 1..4 |-> MaxTempStep(chs, lps, unitsOf, maxsets, i)]
    IN  [names |-> names, chs |-> chs, lps |-> lps, uts |-> unitsOf, steps |-> steps,
         replies |-> [i \in 1..13 |->
                        RetText(CASE i \in 1..2 -> names[Channels[i]]
                                  [] i \in 3..6 -> sources[Loops[i - 2]]
                                  [] i \in 7..8 -> unitsOf[Channels[i - 6]]
                                  [] i \in 9..12 -> maxsets[Loops[i - 8]]
                                  [] OTHER -> Empty)],
         mts |-> IF \A i \in 1..4 : steps[i] = ""
                 THEN initialize_max_temps(chs, lps, unitsOf, maxsets) ELSE NoMap]

\* connect() with the max set points fetched before the units
ConnectCmds_MaxFirst ==
    FirstCmds("input {}:name?", Channels, 2) \o FirstCmds("loop {}:source?", Loops, 4)
        \o FirstCmds("loop {}:maxset?", Loops, 4) \o FirstCmds("input {}:units?", Channels, 2)
        \o <<LockCmd(TRUE)>>

\* The commands of connect() in the order of its statements: the names
\* (__initialize_channel_names), the sources (__initialize_loop_sources), the
\* units (__initialize_units), the max set points (__initialize_max_temps),
\* then lock( True )
ConnectCmds ==
    FirstCmds("input {}:name?", Channels, 2) \o FirstCmds("loop {}:source?", Loops, 4)
        \o FirstCmds("input {}:units?", Channels, 2) \o FirstCmds("loop {}:maxset?", Loops, 4)
        \o <<LockCmd(TRUE)>>

\* The whole of connect() on an open transport: the new fields, the commands
\* sent and the error it ends in.
ConnectRun(plan, failAt) ==
    LET nNames == IF failAt \in 1..2 THEN failAt - 1 ELSE 2
        step(i) == IF plan.steps[i] = "KeyError" THEN "KeyError"
                   ELSE IF failAt = 8 + i THEN "CommunicationError"
                   ELSE plan.steps[i]
        bad == {i \in 1..4 : step(i) # ""}
        b == IF bad = {} THEN 5 ELSE Min(bad)
        base == [chs |-> NamedChannels(plan.names, nNames),
                 cns |-> NamedChannelNames(channel_names, plan.names, nNames),
                 lps |-> loops, uts |-> units, mts |-> max_temps,
                 sent |-> SubSeq(ConnectCmds, 1, failAt),
                 err |-> "CommunicationError"]
        run == IF failAt \in 1..6 THEN base
               ELSE IF failAt \in 7..8 THEN [base EXCEPT !.lps = plan.lps]
               ELSE IF bad # {} THEN
                   [base EXCEPT !.lps = plan.lps, !.uts = plan.uts, !.err = step(b),
                                !.sent = SubSeq(ConnectCmds, 1,
                                             IF step(b) = "KeyError" THEN 8 + b - 1 ELSE 8 + b)]
               ELSE
                   [base EXCEPT !.lps = plan.lps, !.uts = plan.uts, !.mts = plan.mts,
                                !.err = IF failAt = 13 THEN "CommunicationError" ELSE "",
                                !.sent = ConnectCmds]
    IN  [chs |-> run.chs, cns |-> run.cns, lps |-> run.lps, uts |-> run.uts,
         mts |-> run.mts, sent |-> run.sent, err |-> run.err,
         recv |-> SubSeq(plan.replies, 1,
                         IF run.err = "CommunicationError" THEN Len(run.sent) - 1
                         ELSE Len(run.sent))]

-----------------------------------------------------------------------------
(* What the device answers and what the caller passes *)

T_S1 == <<" ", "S", "1">>
T_B == <<"B">>
T_S2 == <<"S", "2">>
T_s1 == <<"s", "1", " ">>
T_CHA == <<"C", "H", "A">>
T_CHB == <<"C", "H", "B">>
T_AUX == <<"A", "U", "X">>
T_K == <<"K">>
T_C == <<"C">>
T_2K == <<"2", "K">>
T_3C == <<"3", "C">>

T_25 == <<"2", ".", "5">>
T_25K == <<"2", ".", "5", "K">>
T_K25 == <<"K", "2", ".", "5">>
T_K25K == <<"K", "2", ".", "5", "K">>
T_ON == <<"O", "N", " ">>
T_OFF == <<"O", "F", "F">>
T_LOW == <<"L", "O", "W">>
T_MID == <<"M", "I", "D", " ">>
T_HI == <<"H", "I">>
T_5 == <<"5">>
T_50 == <<"5", "0">>
T_97 == <<"9", "7">>

ChanMap(a, b) == [c \in ChannelSet |-> IF c = ChA THEN a ELSE b]
LoopMap(l1, l2, l3, l4) ==
    [l \in LoopSet |-> CASE l = Loop1 -> l1 [] l = Loop2 -> l2
                         [] l = Loop3 -> l3 [] l = Loop4 -> l4]

\* 'input {}:name?'
NameReplies == {ChanMap(T_S1, T_S2), ChanMap(T_B, T_S2), ChanMap(T_S1, T_s1)}

\* 'loop {}:source?'
SourceReplies == {LoopMap(T_CHA, T_CHB, T_CHB, T_CHA),
                  LoopMap(T_CHA, T_CHA, T_CHB, T_CHA),
                  LoopMap(T_AUX, T_CHB, T_CHB, T_CHA),
                  LoopMap(T_CHA, T_CHB, T_AUX, T_CHA)}

\* 'input {}:units?'
UnitReplies == {ChanMap(T_K, T_C)}

\* 'loop {}:maxset?'
MaxsetReplies == {LoopMap(T_2K, m2, m3, T_2K) : m2, m3 \in {T_2K, T_3C}}

ChannelArgs == {ChA, <<"B", " ">>, <<"s", "1">>, <<"x">>}
LoopArgs == {Loop1, Loop3}
TempArgs == {20, 25, 35}                      \* tenths
TempReplies == {T_25, T_25K, T_K25, T_K25K}
RangeArgs == {<<"l", "o", "w">>, <<"h", "i">>}
RangeReplies == {T_LOW, T_MID, T_HI}
OutputReplies == {T_5, T_50, T_97}
ControlReplies == {T_ON, T_OFF}

\* connect() for every combination of replies
ConnectPlans ==
    {ConnectPlan(names, sources, unitsOf, maxsets) :
        names \in NameReplies, sources \in SourceReplies,
        unitsOf \in UnitReplies, maxsets \in MaxsetReplies}

-----------------------------------------------------------------------------
(* The session *)

NoCall == [name |-> "", args |-> Empty, nums |-> Empty]
Call(name, args, nums) == [name |-> name, args |-> args, nums |-> nums]

\* __init__
Init ==
    /\ connected = FALSE
    /\ channels = NoMap
    /\ channel_names = NoMap
    /\ loops = NoMap
    /\ max_temps = NoMap
    /\ units = NoMap
    /\ op = NoCall
    /\ sent = Empty
    /\ err = ""
    /\ ret = RetNone
    /\ recv = Empty
    /\ before = NoMap

\* A call that drops the cached maximum set points
Returns_ForgetsMaxTemps(call, r) ==
    /\ op = NoCall
    /\ op' = call
    /\ sent' = r.sent
    /\ err' = r.err
    /\ ret' = r.ret
    /\ recv' = r.recv
    /\ before' = channels
    /\ max_temps' = NoMap
    /\ UNCHANGED <<connected, channels, channel_names, loops, units>>

\* A call that leaves the session's fields and the transport as they are
Returns(call, r) ==
    /\ op = NoCall
    /\ op' = call
    /\ sent' = r.sent
    /\ err' = r.err
    /\ ret' = r.ret
    /\ recv' = r.recv
    /\ before' = channels
    /\ UNCHANGED <<connected, channels, channel_names, loops, units, max_temps>>

\* The caller has the result of the call and is free to make the next one
Return ==
    /\ op # NoCall
    /\ op' = NoCall
    /\ sent' = Empty
    /\ err' = ""
    /\ ret' = RetNone
    /\ recv' = Empty
    /\ before' = NoMap
    /\ UNCHANGED <<connected, channels, channel_names, loops, units, max_temps>>

\* connect(): super().connect() opens the transport, then the fields are
\* set as far as connect() gets
Connect ==
    /\ op = NoCall
    /\ ~connected
    /\ \E plan \in ConnectPlans, failAt \in 0..13 :
          LET r == ConnectRun(plan, failAt)
          IN  /\ connected' = TRUE
              /\ channels' = r.chs
              /\ channel_names' = r.cns
              /\ loops' = r.lps
              /\ units' = r.uts
              /\ max_temps' = r.mts
              /\ op' = Call("connect", Empty, Empty)
              /\ sent' = r.sent
              /\ err' = r.err
              /\ ret' = RetNone
              /\ recv' = r.recv
              /\ before' = channels

\* disconnect() that closes the transport without unlocking the keypad
DisconnectRun_NoUnlock(fails) == Out(Empty, "", RetNone)

\* disconnect(): lock( False ), then super().disconnect() closes the transport
DisconnectRun(fails) == query(connected, LockCmd(FALSE), Empty, fails)

\* disconnect() with the transport closed whether lock( False ) returned or not
TransportAfterDisconnect_Finally(conn, r) == FALSE

\* The transport after disconnect(): super().disconnect() is reached only
\* when lock( False ) returned
TransportAfterDisconnect(conn, r) == IF r.err = "" THEN FALSE ELSE conn

Disconnect ==
    /\ op = NoCall
    /\ \E fails \in BOOLEAN :
          LET r == DisconnectRun(fails)
          IN  /\ connected' = TransportAfterDisconnect(connected, r)
              /\ op' = Call("disconnect", Empty, Empty)
              /\ sent' = r.sent
              /\ err' = r.err
              /\ ret' = RetNone
              /\ recv' = r.recv
              /\ before' = channels
              /\ UNCHANGED <<channels, channel_names, loops, units, max_temps>>

-----------------------------------------------------------------------------
(* The per-operation methods.  Each XRun is the whole method: the commands *)
(* it sends, the error it ends in and the value it returns.                *)

\* get_channel_by_name, called by the user
ResolveRun(name) ==
    LET ch == get_channel_by_name(channels, name)
    IN  Out(Empty, "", IF ch = None THEN RetNone ELSE RetText(ch))

GetChannelByName ==
    \E name \in ChannelArgs :
        Returns(Call("get_channel_by_name", <<name>>, Empty), ResolveRun(name))

\* get_channel_loop, called by the user
ChannelLoopRun(channel) ==
    LET l == get_channel_loop(channels, loops, channel)
    IN  Out(Empty, l.err, IF l.val = None THEN RetNone ELSE RetText(l.val))

GetChannelLoop ==
    \E channel \in ChannelArgs :
        Returns(Call("get_channel_loop", <<channel>>, Empty), ChannelLoopRun(channel))

\* channel_max_temperature
ChannelMaxTemperatureRun(channel) ==
    LET l == get_channel_loop(channels, loops, channel)
    IN  IF l.err # "" THEN Out(Empty, l.err, RetNone)
        ELSE IF l.val = None THEN Out(Empty, "", RetNone)
        ELSE IF DOMAIN max_temps = {} THEN Out(Empty, "TypeError", RetNone)
        ELSE Out(Empty, "", RetNum(max_temps[l.val]))

ChannelMaxTemperature ==
    \E channel \in ChannelArgs :
        Returns(Call("channel_max_temperature", <<channel>>, Empty),
                ChannelMaxTemperatureRun(channel))

\* temperature
TemperatureRun(channel, reply, fails) ==
    LET ch == get_channel_by_name(channels, channel)
        q == query(connected, Cmd("input? {}", <<Format(ch)>>), reply, fails)
    IN  IF q.err # "" THEN q
        ELSE IF ~IsNumber(reply) THEN Then(q, "ValueError", RetNone)
        ELSE Then(q, "", RetNum(Float(reply)))

Temperature ==
    \E channel \in ChannelArgs, reply \in TempReplies, fails \in BOOLEAN :
        Returns(Call("temperature", <<channel>>, Empty),
                TemperatureRun(channel, reply, fails))

\* set_point with the query made before the test of the loop
SetPointRun_QueryFirst(channel, reply, fails) ==
    LET l == get_channel_loop(channels, loops, channel)
        q == query(connected, Cmd("loop {}:setpt?", <<Format(l.val)>>), reply, fails)
        f == temp2float(channels, units, reply, channel)
    IN  IF l.err # "" THEN Out(Empty, l.err, RetNone)
        ELSE IF q.err # "" THEN q
        ELSE IF l.val = None THEN Then(q, "", RetNone)
        ELSE IF f.err # "" THEN Then(q, f.err, RetNone)
        ELSE Then(q, "", RetNum(f.val))

\* set_point
SetPointRun(channel, reply, fails) ==
    LET l == get_channel_loop(channels, loops, channel)
        q == query(connected, Cmd("loop {}:setpt?", <<l.val>>), reply, fails)
        f == temp2float(channels, units, reply, channel)
    IN  IF l.err # "" THEN Out(Empty, l.err, RetNone)
        ELSE IF l.val = None THEN Out(Empty, "", RetNone)
        ELSE IF q.err # "" THEN q
        ELSE IF f.err # "" THEN Then(q, f.err, RetNone)
        ELSE Then(q, "", RetNum(f.val))

SetPoint ==
    \E channel \in ChannelArgs, reply \in TempReplies, fails \in BOOLEAN :
        Returns(Call("set_point", <<channel>>, Empty),
                SetPointRun(channel, reply, fails))

\* The comparison of set_temperature turned round
AboveMaximum_Inverted(temperature, max_temp) == temperature < max_temp

\* The comparison of set_temperature: temperature > max_temp
AboveMaximum(temperature, max_temp) == temperature > max_temp

\* set_temperature that sends the write a second time when it timed out
SetTemperatureRun_Retry(channel, temperature, fails) ==
    LET l == get_channel_loop(channels, loops, channel)
        q == query(connected,
                   Cmd("loop {}:setpt {}", <<l.val, FormatNum(temperature)>>),
                   Empty, fails)
    IN  IF l.err # "" THEN Out(Empty, l.err, RetNone)
        ELSE IF DOMAIN max_temps = {} THEN Out(Empty, "TypeError", RetNone)
        ELSE IF l.val \notin DOMAIN max_temps THEN Out(Empty, "KeyError", RetNone)
        ELSE IF AboveMaximum(temperature, max_temps[l.val])
             THEN Out(Empty, "RuntimeError", RetNone)
        ELSE IF q.err = "CommunicationError" THEN Then(After(q, q), q.err, RetNone)
        ELSE Then(q, q.err, RetNone)

\* set_temperature
SetTemperatureRun(channel, temperature, fails) ==
    LET l == get_channel_loop(channels, loops, channel)
        q == query(connected,
                   Cmd("loop {}:setpt {}", <<l.val, FormatNum(temperature)>>),
                   Empty, fails)
    IN  IF l.err # "" THEN Out(Empty, l.err, RetNone)
        ELSE IF DOMAIN max_temps = {} THEN Out(Empty, "TypeError", RetNone)
        ELSE IF l.val \notin DOMAIN max_temps THEN Out(Empty, "KeyError", RetNone)
        ELSE IF AboveMaximum(temperature, max_temps[l.val])
             THEN Out(Empty, "RuntimeError", RetNone)
        ELSE Then(q, q.err, RetNone)

SetTemperature ==
    \E channel \in ChannelArgs, temperature \in TempArgs, fails \in BOOLEAN :
        Returns(Call("set_temperature", <<channel>>, <<temperature>>),
                SetTemperatureRun(channel, temperature, fails))

\* a method that sends one command and returns nothing
CommandRun(cmd, fails) ==
    LET q == query(connected, cmd, Empty, fails)
    IN  Then(q, q.err, RetNone)

\* enable
Enable ==
    \E fails \in BOOLEAN :
        Returns(Call("enable", Empty, Empty), CommandRun(Cmd("control", Empty), fails))

\* disable
Disable ==
    \E fails \in BOOLEAN :
        Returns(Call("disable", Empty, Empty), CommandRun(Cmd("stop", Empty), fails))

\* lock
Lock ==
    \E lock \in BOOLEAN, fails \in BOOLEAN :
        Returns(Call("lock", Empty, <<IF lock THEN 1 ELSE 0>>),
                CommandRun(LockCmd(lock), fails))

\* set_range
SetRange ==
    \E loop \in LoopArgs, rng \in RangeArgs, fails \in BOOLEAN :
        Returns(Call("set_range", <<loop, rng>>, Empty),
                CommandRun(Cmd("loop {}:range {}", <<loop, rng>>), fails))

\* enabled: self.control() reads the property 'control' of the instrument
EnabledRun(reply, fails) ==
    LET q == query(connected, Cmd("control?", Empty), reply, fails)
    IN  IF q.err # "" THEN q
        ELSE Then(q, "", RetBool(Lower(Strip(reply)) = <<"o", "n">>))

Enabled ==
    \E reply \in ControlReplies, fails \in BOOLEAN :
        Returns(Call("enabled", Empty, Empty), EnabledRun(reply, fails))

\* get_range
GetRangeRun(loop, reply, fails) ==
    LET q == query(connected, Cmd("loop {}:range?", <<loop>>), reply, fails)
    IN  IF q.err # "" THEN q ELSE Then(q, "", RetText(Strip(Lower(reply))))

GetRange ==
    \E loop \in LoopArgs, reply \in RangeReplies, fails \in BOOLEAN :
        Returns(Call("get_range", <<loop>>, Empty), GetRangeRun(loop, reply, fails))

\* get_output: float( pwr ) / 100; tenths of a percent are thousandths
GetOutputRun(loop, reply, fails) ==
    LET q == query(connected, Cmd("loop {}:outpwr?", <<loop>>), reply, fails)
    IN  IF q.err # "" THEN q
        ELSE IF ~IsNumber(reply) THEN Then(q, "ValueError", RetNone)
        ELSE Then(q, "", RetNum(Float(reply)))

GetOutput ==
    \E loop \in LoopArgs, reply \in OutputReplies, fails \in BOOLEAN :
        Returns(Call("get_output", <<loop>>, Empty), GetOutputRun(loop, reply, fails))

-----------------------------------------------------------------------------
(* auto_adjust_range.  The method makes its calls through self.inst, which *)
(* the class does not define: an unknown attribute of the instrument is a  *)
(* SCPI command path (class docstring: "To call a function:                *)
(* inst.p1.p2( 'value' )"), so self.inst.get_channel_loop( ch ) hands the  *)
(* command 'inst:get_channel_loop ch' to the transport and yields what the *)
(* write yields: nothing, or the number of bytes written.                  *)

ThresholdLowDefault == 90       \* 0.09, in thousandths
ThresholdHighDefault == 950     \* 0.95, in thousandths

Ranges == <<<<"l", "o", "w">>, <<"m", "i", "d">>, <<"h", "i">>>>

\* change_range: [err, val]; ranges.index( curr ) is a ValueError for a curr
\* that is no range name
change_range(curr, change) ==
    LET at == {i \in 1..Len(Ranges) : curr = RetText(Ranges[i])}
        pos == Min(at) - 1 + change
    IN  IF at = {} THEN [err |-> "ValueError", val |-> RetNone]
        ELSE IF pos < 0 \/ pos >= Len(Ranges) THEN [err |-> "", val |-> RetNone]
        ELSE [err |-> "", val |-> RetText(Ranges[pos + 1])]

\* '{}'.format( v ) of a returned value
FormatRet(v) ==
    CASE v.kind = "none" -> NoneText
      [] v.kind = "text" -> v.text
      [] v.kind = "int" ->
            (IF v.num >= 10 THEN <<DigitChars[((v.num \div 10) % 10) + 1]>> ELSE Empty)
                \o <<DigitChars[(v.num % 10) + 1]>>
      [] OTHER -> FormatNum(v.num)

\* What a write through the instrument yields
InstValues == {RetNone, RetInt(25)}

\* self.inst.<name>( args ): the command goes to the transport as it is
inst_call(conn, name, args, value, fails) ==
    LET cmd == Cmd(name, args)
    IN  IF ~conn THEN Out(Empty, "NotConnectedError", RetNone)
        ELSE IF fails THEN Out(<<cmd>>, "CommunicationError", RetNone)
        ELSE [Out(<<cmd>>, "", value) EXCEPT !.recv = <<value>>]

\* output < threshold and output > threshold for what get_output yielded:
\* a byte count is a whole number, the thresholds are thousandths
Below(output, threshold) == 1000 * output.num < threshold
Above(output, threshold) == 1000 * output.num > threshold

\* One iteration of the loop over the channels: its outcome, and whether the
\* loop goes on.  first is what get_channel_loop yielded, output and rng what
\* get_output and get_range yielded; failCall is the call that times out.
AdjustChannel(tl, th, ch, first, output, rng, failCall) ==
    LET c1 == inst_call(connected, "inst:get_channel_loop {}", <<ch>>, first, failCall = 1)
        loop == c1.ret
        c2 == inst_call(connected, "inst:get_output {}", <<FormatRet(loop)>>,
                        output, failCall = 2)
        c3 == inst_call(connected, "inst:get_range {}", <<FormatRet(loop)>>,
                        rng, failCall = 3)
        cr == IF Below(output, tl) THEN change_range(rng, -1)
              ELSE IF Above(output, th) THEN change_range(rng, 1)
              ELSE [err |-> "", val |-> RetNone]
        c4 == inst_call(connected, "inst:set_range {}",
                        <<FormatRet(loop), FormatRet(cr.val)>>, RetNone, failCall = 4)
        c12 == After(c1, c2)
        c123 == After(c12, c3)
    IN  IF c1.err # "" THEN c1
        ELSE IF loop = RetNone THEN Then(c1, "", RetNone)
        ELSE IF c2.err # "" THEN Then(c12, c2.err, RetNone)
        ELSE IF c3.err # "" THEN Then(c123, c3.err, RetNone)
        ELSE IF output = RetNone THEN Then(c123, "TypeError", RetNone)
        ELSE IF cr.err # "" THEN Then(c123, cr.err, RetNone)
        ELSE IF cr.val = RetNone THEN Then(c123, "", RetNone)
        ELSE Then(After(c123, c4), c4.err, RetNone)

RECURSIVE AdjustFrom(_, _, _, _, _, _, _, _)
AdjustFrom(tl, th, chlist, i, firsts, output, rng, failAt) ==
    IF i > Len(chlist) THEN Out(Empty, "", RetNone)
    ELSE LET r == AdjustChannel(tl, th, chlist[i], firsts[i], output, rng,
                                IF failAt[1] = i THEN failAt[2] ELSE 0)
             rest == AdjustFrom(tl, th, chlist, i + 1, firsts, output, rng, failAt)
         IN  IF r.err # "" THEN r
             ELSE Then(After(r, rest), rest.err, RetNone)

\* channels = None stands for self.channels.keys()
AllChannels == <<None>>
ChannelKeys == SelectSeq(Channels, LAMBDA c : c \in DOMAIN channels)

AutoAdjustRangeRun(tl, th, chlist, firsts, output, rng, failAt) ==
    AdjustFrom(tl, th, IF chlist = AllChannels THEN ChannelKeys ELSE chlist,
               1, firsts, output, rng, failAt)

ChannelLists == {AllChannels, <<ChB>>, <<ChB, ChA>>}
FailSpots == {<<0, 0>>, <<1, 1>>, <<1, 3>>, <<2, 2>>}

AutoAdjustRange ==
    \E chlist \in ChannelLists, firsts \in [1..2 -> InstValues],
       output \in InstValues, rng \in InstValues, failAt \in FailSpots :
        Returns(Call("auto_adjust_range", chlist,
                     <<ThresholdLowDefault, ThresholdHighDefault>>),
                AutoAdjustRangeRun(ThresholdLowDefault, ThresholdHighDefault,
                                   chlist, firsts, output, rng, failAt))

-----------------------------------------------------------------------------

Next ==
    \/ Connect
    \/ Disconnect
    \/ Return
    \/ GetChannelByName
    \/ GetChannelLoop
    \/ ChannelMaxTemperature
    \/ Temperature
    \/ SetPoint
    \/ SetTemperature
    \/ Enable
    \/ Disable
    \/ Enabled
    \/ Lock
    \/ GetRange
    \/ SetRange
    \/ GetOutput
    \/ AutoAdjustRange

Spec == Init /\ [][Next]_vars

-----------------------------------------------------------------------------
(* Properties *)

SetptWrite == "loop {}:setpt {}"
UnlockCmd == Cmd("system:lock {}", <<<<"o", "f", "f">>>>)
KeypadLockCmd == Cmd("system:lock {}", <<<<"o", "n">>>>)

Populated ==
    /\ DOMAIN channels = ChannelSet
    /\ DOMAIN loops = LoopSet
    /\ DOMAIN units = ChannelSet
    /\ DOMAIN max_temps = LoopSet

\* The loop the session holds for the channel of the last call
LoopOfCall == get_channel_loop(channels, loops, op.args[1])

\* C1: set_temperature( channel, v ) with v above the maximum of the
\* channel's loop ends in an error and sends nothing, and every set-point
\* write a call sends names a loop and a value that is not above the
\* maximum the session holds for that loop.
C1_AboveMaximumRejected ==
    /\ (/\ op.name = "set_temperature"
        /\ DOMAIN loops # {}
        /\ LoopOfCall.val \in DOMAIN max_temps
        /\ op.nums[1] > max_temps[LoopOfCall.val])
            => (err # "" /\ sent = Empty)
    /\ \A i \in 1..Len(sent) :
            sent[i].fmt = SetptWrite =>
                \E l \in DOMAIN max_temps, v \in TempArgs :
                    /\ sent[i].args = <<l, FormatNum(v)>>
                    /\ v <= max_temps[l]

C1_Witness ==
    /\ op.name = "set_temperature"
    /\ connected
    /\ Populated
    /\ LoopOfCall.val \in DOMAIN max_temps
    /\ op.nums[1] > max_temps[LoopOfCall.val]
    /\ err = "RuntimeError"
    /\ sent = Empty

\* C2: disconnect() called with the transport open sends the keypad-unlock
\* command and nothing else, the transport is closed when the command was
\* answered, and the transport is never closed in any other way.
C2_UnlockThenClose ==
    [][/\ (connected /\ op'.name = "disconnect")
            => /\ sent' = <<UnlockCmd>>
               /\ err' \in {"", "CommunicationError"}
               /\ (err' = "" => ~connected')
       /\ (connected /\ ~connected')
            => (op'.name = "disconnect" /\ sent' = <<UnlockCmd>> /\ err' = "")]_vars

C2_Witness ==
    /\ op.name = "disconnect"
    /\ ~connected
    /\ Populated
    /\ err = ""
    /\ sent = <<UnlockCmd>>

\* C3: the commands of connect() are a prefix of: the names of a and b, the
\* sources of loops 1-4, the units of a and b, the max set points of loops
\* 1-4, the keypad lock; all of them when connect() returns; the alias lists
\* start from the seeds; and the lock is sent with all four maps populated.
ConnectOrder ==
    <<Cmd("input {}:name?", <<ChA>>), Cmd("input {}:name?", <<ChB>>),
      Cmd("loop {}:source?", <<Loop1>>), Cmd("loop {}:source?", <<Loop2>>),
      Cmd("loop {}:source?", <<Loop3>>), Cmd("loop {}:source?", <<Loop4>>),
      Cmd("input {}:units?", <<ChA>>), Cmd("input {}:units?", <<ChB>>),
      Cmd("loop {}:maxset?", <<Loop1>>), Cmd("loop {}:maxset?", <<Loop2>>),
      Cmd("loop {}:maxset?", <<Loop3>>), Cmd("loop {}:maxset?", <<Loop4>>),
      KeypadLockCmd>>

C3_ConnectOrder ==
    op.name = "connect" =>
        /\ connected
        /\ Len(sent) <= Len(ConnectOrder)
        /\ sent = SubSeq(ConnectOrder, 1, Len(sent))
        /\ err = "" => sent = ConnectOrder
        /\ \A c \in ChannelSet :
              /\ c \in DOMAIN channels
              /\ channels[c][1] = (IF c = ChA THEN <<"c", "h", "a">> ELSE <<"c", "h", "b">>)
        /\ InList(KeypadLockCmd, sent) =>
              /\ Populated
              /\ \A c \in ChannelSet : Len(channels[c]) = 2

C3_Witness ==
    /\ op.name = "connect"
    /\ err = ""
    /\ sent = ConnectOrder
    /\ Populated

\* C4: after a connect() that returned, every channel is what its key, its
\* seed alias and its stripped, lower-cased display name resolve to.
C4_ResolveRoundTrip ==
    (op.name = "connect" /\ err = "") =>
        \A c \in ChannelSet :
            /\ get_channel_by_name(channels, c) = c
            /\ get_channel_by_name(channels, channels[c][1]) = c
            /\ get_channel_by_name(channels, Lower(Strip(channel_names[c]))) = c

\* C4 as amended: the same, for the channels whose stripped, lower-cased
\* display name is neither the key, nor the seed alias, nor the display name
\* of the other channel.
DisplayAlias(c) == Lower(Strip(channel_names[c]))

NamesApart ==
    \A c, d \in ChannelSet :
        c # d => DisplayAlias(c) \notin {d, channels[d][1], DisplayAlias(d)}

C4_ResolveRoundTripApart ==
    (op.name = "connect" /\ err = "" /\ NamesApart) =>
        \A c \in ChannelSet :
            /\ get_channel_by_name(channels, c) = c
            /\ get_channel_by_name(channels, channels[c][1]) = c
            /\ get_channel_by_name(channels, DisplayAlias(c)) = c

C4_Witness ==
    /\ op.name = "connect"
    /\ err = ""
    /\ NamesApart
    /\ channel_names[ChA] = <<"S", "1">>
    /\ get_channel_by_name(channels, <<"s", "1">>) = ChA

\* C5: get_channel_loop of a name that resolves to no channel returns None,
\* whatever the sources of the loops are.
C5_UnresolvedHasNoLoop ==
    (/\ op.name = "get_channel_loop"
     /\ DOMAIN loops # {}
     /\ get_channel_by_name(channels, op.args[1]) = None)
        => (err = "" /\ ret = RetNone)

\* C6: get_channel_loop of a name that resolves to a channel returns loop 1
\* if the source of loop 1 resolves to that channel, else loop 2 if the
\* source of loop 2 does, else None; the sources of loops 3 and 4 play no part.
SourceOf(l) == get_channel_by_name(channels, loops[l])

C6_LowestOfLoops12 ==
    (/\ op.name = "get_channel_loop"
     /\ DOMAIN loops # {}
     /\ get_channel_by_name(channels, op.args[1]) # None)
        => /\ err = ""
           /\ ret = (IF SourceOf(Loop1) = get_channel_by_name(channels, op.args[1])
                         THEN RetText(Loop1)
                     ELSE IF SourceOf(Loop2) = get_channel_by_name(channels, op.args[1])
                         THEN RetText(Loop2)
                     ELSE RetNone)

C6_Witness ==
    /\ op.name = "get_channel_loop"
    /\ DOMAIN loops # {}
    /\ SourceOf(Loop1) = ChA
    /\ SourceOf(Loop2) = ChA
    /\ get_channel_by_name(channels, op.args[1]) = ChA
    /\ ret = RetText(Loop1)

\* The loop that controls a channel name: loop 1 or loop 2, the first whose
\* source is the channel the name resolves to; None for a name that resolves
\* to no channel and for a channel that is the source of neither
ControllingLoop(name) ==
    LET ch == get_channel_by_name(channels, name)
    IN  IF DOMAIN loops = {} \/ ch = None THEN None
        ELSE IF SourceOf(Loop1) = ch THEN Loop1
        ELSE IF SourceOf(Loop2) = ch THEN Loop2
        ELSE None

\* The channels of an auto_adjust_range call
ListOfCall == IF op.args = AllChannels THEN ChannelKeys ELSE op.args

RangeWrite == "loop {}:range {}"
RangeVocabulary ==
    {"loop {}:outpwr?", "loop {}:range?", RangeWrite,
     "inst:get_output {}", "inst:get_range {}", "inst:set_range {}"}

\* C7: a call of auto_adjust_range on a connected session reads, for every
\* channel of its list with a controlling loop L, the output power and the
\* range of L, sends at most one range write for L, sends nothing but these
\* commands, and raises no error of its own.
C7_OneRangeStep ==
    (/\ op.name = "auto_adjust_range"
     /\ connected
     /\ Populated
     /\ err # "CommunicationError")
        => /\ err = ""
           /\ \A j \in 1..Len(sent) : sent[j].fmt \in RangeVocabulary
           /\ \A i \in 1..Len(ListOfCall) :
                LET l == ControllingLoop(ListOfCall[i])
                IN  l # None =>
                      /\ InList(Cmd("loop {}:outpwr?", <<l>>), sent)
                      /\ InList(Cmd("loop {}:range?", <<l>>), sent)
                      /\ Cardinality({j \in 1..Len(sent) :
                            sent[j].fmt = RangeWrite /\ sent[j].args[1] = l}) <= 1

\* C8: a call of auto_adjust_range on a connected session raises no error
\* and sends no output-power query, range query or range write when no
\* channel of its list has a controlling loop, and when it returns it has
\* read the output power of the loop of every listed channel that has one.
C8_LooplessSkipped ==
    (/\ op.name = "auto_adjust_range"
     /\ connected
     /\ Populated)
        => /\ (\A i \in 1..Len(ListOfCall) : ControllingLoop(ListOfCall[i]) = None)
                => /\ err = ""
                   /\ \A j \in 1..Len(sent) : sent[j].fmt \notin RangeVocabulary
           /\ ((\E i \in 1..Len(ListOfCall) : ControllingLoop(ListOfCall[i]) = None)
               /\ err = "")
                => \A i \in 1..Len(ListOfCall) :
                      LET l == ControllingLoop(ListOfCall[i])
                      IN  l # None => InList(Cmd("loop {}:outpwr?", <<l>>), sent)

PerOperationMethods ==
    {"temperature", "set_point", "set_temperature", "channel_max_temperature",
     "enable", "disable", "get_range", "set_range", "get_output",
     "auto_adjust_range"}

\* C9: a per-operation method called while the transport is closed ends in
\* an error, returns nothing and sends nothing.
C9_DisconnectedFails ==
    (op.name \in PerOperationMethods /\ ~connected)
        => (err # "" /\ ret = RetNone /\ sent = Empty)

\* C10: set_temperature for a name that no loop controls ends in an error
\* and sends no set-point write.
C10_NoLoopRejected ==
    (op.name = "set_temperature" /\ ControllingLoop(op.args[1]) = None)
        => /\ err # ""
           /\ \A j \in 1..Len(sent) : sent[j].fmt # SetptWrite

\* C11: temperature of a name that resolves to no channel ends in an error
\* and returns no number, whatever the device answers.
C11_UnknownChannelFails ==
    (op.name = "temperature" /\ get_channel_by_name(channels, op.args[1]) = None)
        => (err # "" /\ ret.kind # "num")

\* The source of loop i as connect() heard it, and the channel it resolves to
HeardSource(i) == get_channel_by_name(channels, Lower(recv[2 + i].text))

\* C12: a connect() that heard a loop source which resolves to no channel
\* ends in an error, does not send the keypad lock and does not leave the
\* session connected; after a connect() that returned all four sources
\* resolve to a channel.
C12_UnresolvedSourceFailsConnect ==
    /\ (/\ op.name = "connect"
        /\ Len(recv) >= 6
        /\ \E i \in 1..4 : HeardSource(i) = None)
            => /\ err # ""
               /\ ~InList(KeypadLockCmd, sent)
               /\ ~connected
    /\ (op.name = "connect" /\ err = "")
            => \A l \in LoopSet : SourceOf(l) # None

\* C13: after a connect() that returned, the maximum of every loop is the
\* number left of the loop's 'maxset?' reply when the unit of the channel
\* its source resolves to is removed; channel_max_temperature of a channel
\* with a controlling loop returns that loop's maximum and sends nothing.
C13_MaxTempFromReply ==
    /\ (op.name = "connect" /\ err = "")
            => \A i \in 1..4 :
                  LET rest == Replace(recv[8 + i].text, units[SourceOf(Loops[i])])
                  IN  /\ IsNumber(rest)
                      /\ max_temps[Loops[i]] = Float(rest)
    /\ (/\ op.name = "channel_max_temperature"
        /\ Populated
        /\ ControllingLoop(op.args[1]) # None)
            => /\ err = ""
               /\ sent = Empty
               /\ ret = RetNum(max_temps[ControllingLoop(op.args[1])])

\* C14: no call but connect() changes the alias lists, the loop sources,
\* the units or the maximum set points, whether it returns or raises.
C14_MapsFrozen ==
    [][op'.name # "connect"
            => UNCHANGED <<channels, loops, units, max_temps>>]_vars

C14_Witness ==
    /\ op.name = "set_point"
    /\ connected
    /\ Populated
    /\ err = "ValueError"
    /\ before = channels

\* A token or an alias of a channel
Registered(n) ==
    \/ n \in ChannelSet
    \/ \E c \in DOMAIN channels : InList(n, channels[c])

\* C15: get_channel_by_name of a name whose stripped, lower-cased form is
\* neither a channel token nor an alias of a channel returns None, raises
\* nothing and sends nothing.
C15_UnknownNameNotFound ==
    (op.name = "get_channel_by_name" /\ ~Registered(Lower(Strip(op.args[1]))))
        => (err = "" /\ ret = RetNone /\ sent = Empty)

C15_Witness ==
    /\ op.name = "get_channel_by_name"
    /\ Populated
    /\ op.args[1] = <<"s", "1">>
    /\ ~Registered(<<"s", "1">>)
    /\ ret = RetNone

\* C16: with the loop sources recorded, set_point and channel_max_temperature
\* of a channel that is the source of neither loop 1 nor loop 2 return None,
\* raise nothing and send nothing; set_point of a channel with controlling
\* loop L on an open transport sends 'loop L:setpt?' once and nothing else.
C16_NoLoopAbsent ==
    /\ (/\ op.name \in {"set_point", "channel_max_temperature"}
        /\ DOMAIN loops # {}
        /\ get_channel_by_name(channels, op.args[1]) # None
        /\ ControllingLoop(op.args[1]) = None)
            => (err = "" /\ ret = RetNone /\ sent = Empty)
    /\ (/\ op.name = "set_point"
        /\ connected
        /\ ControllingLoop(op.args[1]) # None)
            => sent = <<Cmd("loop {}:setpt?", <<ControllingLoop(op.args[1])>>)>>

C16_Witness ==
    /\ op.name = "set_point"
    /\ connected
    /\ Populated
    /\ get_channel_by_name(channels, op.args[1]) = ChB
    /\ ControllingLoop(op.args[1]) = None
    /\ err = ""
    /\ ret = RetNone
    /\ sent = Empty

\* C17: every command a call handed to the transport was answered, except
\* the last one of a call that ended in CommunicationError: a timeout ends
\* the call with that error and nothing is sent after it.
C17_NoRetry ==
    Len(sent) = Len(recv) + (IF err = "CommunicationError" THEN 1 ELSE 0)

C17_Witness ==
    /\ op.name = "set_temperature"
    /\ err = "CommunicationError"
    /\ Len(sent) = 1
    /\ sent[1].fmt = SetptWrite
    /\ recv = Empty

\* The channel of the last call and the reply its query was answered with
ChannelOfCall == get_channel_by_name(channels, op.args[1])
SetPointHeard ==
    /\ op.name = "set_point"
    /\ Len(recv) = 1
    /\ ChannelOfCall \in DOMAIN units

\* C18: set_point parses its reply by removing the first occurrence of the
\* channel's unit and reading the rest as a number; a rest that is no number
\* is a ValueError.
C18_FirstOccurrenceOnly ==
    SetPointHeard =>
        LET rest == RemoveFirst(recv[1].text, units[ChannelOfCall])
        IN  IF IsNumber(rest) THEN err = "" /\ ret = RetNum(Float(rest))
            ELSE err = "ValueError"

\* s without the characters of a one-character unit
WithoutUnit(s, u) == SelectSeq(s, LAMBDA c : <<c>> # u)

\* C18 as amended: every occurrence of the channel's unit is removed, and
\* the rest is read as a number; a rest that is no number is a ValueError.
C18_EveryOccurrence ==
    (SetPointHeard /\ Len(units[ChannelOfCall]) = 1) =>
        LET rest == WithoutUnit(recv[1].text, units[ChannelOfCall])
        IN  IF IsNumber(rest) THEN err = "" /\ ret = RetNum(Float(rest))
            ELSE err = "ValueError"

C18_Witness ==
    /\ SetPointHeard
    /\ units[ChannelOfCall] = T_K
    /\ recv[1].text = T_K25K
    /\ err = ""
    /\ ret = RetNum(25)

\* The display aliases connect() heard
HeardAliases == {Lower(Strip(recv[i].text)) : i \in 1..2}

\* C19: after a connect() that returned, the alias list of every channel is
\* its seed alias and the display name heard in this connect(), and an alias
\* of before the call that is no token, no seed alias and none of the names
\* heard resolves to no channel.
C19_AliasesOfThisConnect ==
    (op.name = "connect" /\ err = "") =>
        /\ \A i \in 1..2 :
              channels[Channels[i]] =
                  <<SeedChannels[Channels[i]][1], Lower(Strip(recv[i].text))>>
        /\ \A c \in DOMAIN before : \A k \in 1..Len(before[c]) :
              before[c][k] \notin
                    (HeardAliases \cup ChannelSet
                        \cup {SeedChannels[d][1] : d \in ChannelSet})
                 => get_channel_by_name(channels, before[c][k]) = None

C19_Witness ==
    /\ op.name = "connect"
    /\ err = ""
    /\ ChA \in DOMAIN before
    /\ before[ChA] = <<<<"c", "h", "a">>, <<"s", "1">>>>
    /\ channels[ChA] = <<<<"c", "h", "a">>, <<"b">>>>
    /\ get_channel_by_name(channels, <<"s", "1">>) = None

\* C20: a disconnect() that ended in an error leaves the transport as it
\* was, and a disconnect() closes the transport only when its unlock command
\* was answered.
C20_FailedUnlockKeepsOpen ==
    [][op'.name = "disconnect"
            => /\ err' # "" => connected' = connected
               /\ (connected /\ ~connected')
                    => (err' = "" /\ recv' = <<RetText(Empty)>>)]_vars

C20_Witness ==
    /\ op.name = "disconnect"
    /\ err = "CommunicationError"
    /\ sent = <<UnlockCmd>>
    /\ connected
    /\ Populated

====
